---- MODULE Spec2Model ----
(***************************************************************************)
(* Model of the attendance / performance analytics of                      *)
(* CF-Attendance-and-Performance (performance_analysis.py, app.py).        *)
(*                                                                         *)
(* A DataFrame is a record [rows, dtype, columns]; a row is a record of    *)
(* cells.  A date cell is either a raw string (kind "str": the separator,  *)
(* the three numeric fields in textual order, zero padding), a Timestamp   *)
(* (kind "ts": day ordinal) or NaT.  Names and statuses are strings,       *)
(* modelled as sequences of words, or the missing value NA.                *)
(* Rates with 2 decimals are integers in hundredths, numbers with 1        *)
(* decimal are integers in tenths.  A float that may be NaN is <<>> (NaN)  *)
(* or <<v>>.                                                               *)
(***************************************************************************)
EXTENDS Integers, Sequences, FiniteSets, TLC

VARIABLES
    records,              \* the raw table handed to the stage sequence (never mutated)
    df,                   \* the DataFrame the stages work on and mutate in place
    attendance,           \* app.py:48
    tasks,                \* app.py:51
    performance,          \* app.py:54
    ai_insights,          \* app.py:60
    deadline_performance, \* app.py:63
    overall_scores,       \* app.py:73
    first,                \* results of the first pass, kept for comparison
    pass,                 \* 1 or 2: which application of the stage sequence
    pc,                   \* next stage of the script
    snapshot,             \* the sheet content load_data returns (session model)
    session_state,        \* st.session_state: <<>> or <<ai_insights>>
    runs,                 \* number of script runs of the session so far
    ran                   \* the aggregators already applied (any-order model)

vars == <<records, df, attendance, tasks, performance, ai_insights,
          deadline_performance, overall_scores, first, pass, pc,
          snapshot, session_state, runs, ran>>

----------------------------------------------------------------------------
(* Bounds *)

MaxRows == 2          \* rows of an enumerated table
BulkSize == 47        \* rows of the largest generated table
MaxRuns == 2          \* script runs of one session

(* Program constants *)

DaysInMonthAssumed == 30
TodayDay == 3         \* the day "datetime.today()" falls on in the session model

----------------------------------------------------------------------------
(* Values *)

NA == <<"<NA>">>                       \* NaN / None in an object column
notna(v) == v # NA                     \* pd.notna

NaT == [kind |-> "NaT"]
Timestamp(o) == [kind |-> "ts", ord |-> o]
Str(sep, f1, f2, f3, pad) ==
    [kind |-> "str", sep |-> sep, f1 |-> f1, f2 |-> f2, f3 |-> f3, pad |-> pad]
DMY(d, m, y) == Str("/", d, m, y, TRUE)       \* "01/06/2024"
EmptyStr == Str("", 0, 0, 0, FALSE)           \* ""

NaN == <<>>
Num(v) == <<v>>
isnan(x) == x = <<>>
Val(x) == x[1]

Min(a, b) == IF a <= b THEN a ELSE b
Max(a, b) == IF a >= b THEN a ELSE b

----------------------------------------------------------------------------
(* Calendar: what strptime("%d/%m/%Y") accepts and the day it denotes *)

IsLeap(y) == (y % 4 = 0 /\ y % 100 # 0) \/ y % 400 = 0

DaysInMonth(m, y) ==
    IF m = 2 THEN (IF IsLeap(y) THEN 29 ELSE 28)
    ELSE IF m \in {4, 6, 9, 11} THEN 30 ELSE 31

RECURSIVE DaysBeforeMonth(_, _)
DaysBeforeMonth(m, y) ==
    IF m <= 1 THEN 0 ELSE DaysBeforeMonth(m - 1, y) + DaysInMonth(m - 1, y)

\* days from 01/01/2000 to 01/01/y, for 2000 <= y < 2100
DaysBeforeYear(y) == 365 * (y - 2000) + ((y - 2000) + 3) \div 4

Ordinal(d, m, y) == DaysBeforeYear(y) + DaysBeforeMonth(m, y) + d

\* a bug: values that are already typed are parsed again as text and fail
to_datetime_reparse(c) ==
    IF c.kind # "str" THEN NaT
    ELSE IF /\ c.sep = "/"
            /\ c.f3 \in 2000..2099
            /\ c.f2 \in 1..12
            /\ c.f1 \in 1..DaysInMonth(c.f2, c.f3)
         THEN Timestamp(Ordinal(c.f1, c.f2, c.f3))
         ELSE NaT

\* pd.to_datetime(value, format="%d/%m/%Y", errors='coerce') on one cell:
\* a Timestamp or NaT is returned as it is, a string is parsed, and what does
\* not match the format or names no calendar day becomes NaT (the years of
\* the model are those of this century)
to_datetime(c) ==
    IF c.kind # "str" THEN c
    ELSE IF /\ c.sep = "/"
            /\ c.f3 \in 2000..2099
            /\ c.f2 \in 1..12
            /\ c.f1 \in 1..DaysInMonth(c.f2, c.f3)
         THEN Timestamp(Ordinal(c.f1, c.f2, c.f3))
         ELSE NaT

----------------------------------------------------------------------------
(* Helpers over sequences and mappings *)

RECURSIVE SumTo(_, _)
SumTo(s, n) == IF n = 0 THEN 0 ELSE s[n] + SumTo(s, n - 1)
SumSeq(s) == SumTo(s, Len(s))

Range(s) == {s[i] : i \in DOMAIN s}

\* dict.get(k, default)
Get(m, k, default) == IF k \in DOMAIN m THEN m[k] ELSE default

MinOf(S) == CHOOSE x \in S : \A y \in S : x <= y
MaxOf(S) == CHOOSE x \in S : \A y \in S : x >= y

\* num/den rounded to the nearest integer, ties to even (numpy round, Python
\* round); \div and % are floor division and its remainder
RoundHalfEven(num, den) ==
    LET q == num \div den
        r == num % den
    IN  IF 2 * r < den THEN q
        ELSE IF 2 * r > den THEN q + 1
        ELSE IF q % 2 = 0 THEN q ELSE q + 1

\* "word" in status: substring test, at the granularity of words
Contains(status, word) == \E i \in DOMAIN status : status[i] = word

Emails(d) == {d.rows[i].Email : i \in DOMAIN d.rows}
RowsOf(d, email) == SelectSeq(d.rows, LAMBDA r : r.Email = email)

----------------------------------------------------------------------------
(* performance_analysis.py *)

TASK_CONVERSION ==
    (<<"Completed">> :> 100) @@ (<<"Ongoing">> :> 60) @@
    (<<"Research">> :> 30) @@ (<<"Finishing">> :> 90)

is_datetime64_any_dtype(d, col) == d.dtype[col] = "datetime64"

\* df[col] = pd.to_datetime(df[col], format="%d/%m/%Y", errors='coerce')
ConvertColumn(d, col) ==
    [rows    |-> [i \in DOMAIN d.rows |->
                     [d.rows[i] EXCEPT ![col] = to_datetime(d.rows[i][col])]],
     dtype   |-> [d.dtype EXCEPT ![col] = "datetime64"],
     columns |-> d.columns]

\* a late row still earns its table value
calculate_task_completion_rate_nolate(row) ==
    IF row.TaskStatus \in DOMAIN TASK_CONVERSION
    THEN TASK_CONVERSION[row.TaskStatus]
    ELSE 0

calculate_task_completion_rate(row) ==
    LET task_status == row.TaskStatus
        deadline == to_datetime(row.TaskAssignedDate)
        today == to_datetime(row.TodaysDate)
        \* a comparison with NaT is False
        completed_on_time ==
            /\ today.kind = "ts"
            /\ deadline.kind = "ts"
            /\ today.ord <= deadline.ord
    IN  IF task_status \in DOMAIN TASK_CONVERSION
        THEN (IF completed_on_time THEN TASK_CONVERSION[task_status] ELSE 0)
        ELSE 0

\* the frame process_attendance leaves behind (lines 29-30)
process_attendance_frame(d) ==
    IF "TodaysDate" \in d.columns /\ ~is_datetime64_any_dtype(d, "TodaysDate")
    THEN ConvertColumn(d, "TodaysDate")
    ELSE d

\* counts the rows, not the distinct days
process_attendance_count(d) ==
    LET f == process_attendance_frame(d)
        kept == SelectSeq(f.rows, LAMBDA r : r.TodaysDate # NaT)
    IN  [e \in {kept[i].Email : i \in DOMAIN kept} |->
            Len(SelectSeq(kept, LAMBDA r : r.Email = e))]

\* df.dropna(subset=[..]).groupby("Email")[..].nunique().to_dict()
process_attendance(d) ==
    LET f == process_attendance_frame(d)
        kept == SelectSeq(f.rows, LAMBDA r : r.TodaysDate # NaT)
    IN  [e \in {kept[i].Email : i \in DOMAIN kept} |->
            Cardinality({kept[i].TodaysDate :
                            i \in {j \in DOMAIN kept : kept[j].Email = e}})]

HasTask(r) == notna(r.AssignedTaskName) /\ notna(r.TaskStatus)
TaskPair(r) == <<r.AssignedTaskName, r.TaskStatus>>

\* one entry per task name: a later row of the same task replaces the earlier
fetch_tasks_latest(d) ==
    LET withTask == SelectSeq(d.rows, HasTask)
    IN  [e \in {withTask[i].Email : i \in DOMAIN withTask} |->
            LET mine == SelectSeq(withTask, LAMBDA r : r.Email = e)
                keep == {i \in DOMAIN mine :
                            \A j \in DOMAIN mine :
                                j > i => mine[j].AssignedTaskName # mine[i].AssignedTaskName}
                RECURSIVE Pick(_)
                Pick(n) == IF n = 0 THEN <<>>
                           ELSE IF n \in keep THEN Append(Pick(n - 1), TaskPair(mine[n]))
                           ELSE Pick(n - 1)
            IN  Pick(Len(mine))]

\* lines 36-42
fetch_tasks(d) ==
    LET withTask == SelectSeq(d.rows, HasTask)
    IN  [e \in {withTask[i].Email : i \in DOMAIN withTask} |->
            LET mine == SelectSeq(withTask, LAMBDA r : r.Email = e)
            IN  [i \in DOMAIN mine |-> TaskPair(mine[i])]]

\* the frame compute_performance leaves behind (line 46)
compute_performance_frame(d) ==
    [rows    |-> [i \in DOMAIN d.rows |->
                     [d.rows[i] EXCEPT !.TaskCompletionRate =
                          Num(calculate_task_completion_rate(d.rows[i]))]],
     dtype   |-> d.dtype,
     columns |-> d.columns \cup {"TaskCompletionRate"}]

\* groupby("Email")["Task Completion Rate"].mean().round(2), in hundredths
compute_performance(d) ==
    LET f == compute_performance_frame(d)
    IN  [e \in Emails(f) |->
            LET mine == RowsOf(f, e)
                rates == [i \in DOMAIN mine |-> Val(mine[i].TaskCompletionRate)]
            IN  RoundHalfEven(100 * SumSeq(rates), Len(rates))]

\* exclusive thresholds instead of inclusive ones
PerformanceLevel_exclusive(completed_tasks, total_tasks, days_present) ==
    LET cr_ge(t) == total_tasks > 0 /\ completed_tasks * 100 > t * total_tasks
        ar_ge(t) == days_present * 100 > t * DaysInMonthAssumed
    IN  IF cr_ge(80) /\ ar_ge(90) THEN "Excellent"
        ELSE IF cr_ge(70) /\ ar_ge(80) THEN "Good"
        ELSE IF cr_ge(50) /\ ar_ge(70) THEN "Average"
        ELSE "Below Average"

\* lines 78-93: completion_rate = completed/total*100 (0 without tasks),
\* attendance_rate = days_present/30*100, compared without forming the floats
PerformanceLevel(completed_tasks, total_tasks, days_present) ==
    LET cr_ge(t) == IF total_tasks > 0
                    THEN completed_tasks * 100 >= t * total_tasks
                    ELSE 0 >= t
        ar_ge(t) == days_present * 100 >= t * DaysInMonthAssumed
    IN  IF cr_ge(80) /\ ar_ge(90) THEN "Excellent"
        ELSE IF cr_ge(70) /\ ar_ge(80) THEN "Good"
        ELSE IF cr_ge(50) /\ ar_ge(70) THEN "Average"
        ELSE "Below Average"

Recommendation(level) ==
    CASE level = "Excellent" -> "Consider for promotion or additional responsibilities."
      [] level = "Good" -> "Performing well, but has room for improvement in task efficiency."
      [] level = "Average" -> "Needs improvement in task completion and consistency."
      [] OTHER -> "Requires immediate attention and performance improvement plan."

\* the content of one insight text (lines 70-125)
Insight(d, all_tasks, email) ==
    LET mytasks == all_tasks[email]
        total_tasks == Len(mytasks)
        completed_tasks ==
            Len(SelectSeq(mytasks, LAMBDA t : Contains(t[2], "Finishing") \/ Contains(t[2], "Completed")))
        mine == RowsOf(d, email)
        \* len(df[df["Email"] == email]["Today's Date"].unique())
        days_present == Cardinality({mine[i].TodaysDate : i \in DOMAIN mine})
        ongoing_tasks == Len(SelectSeq(mytasks, LAMBDA t : Contains(t[2], "Ongoing")))
        research_tasks == Len(SelectSeq(mytasks, LAMBDA t : Contains(t[2], "Research")))
        level == PerformanceLevel(completed_tasks, total_tasks, days_present)
    IN  [performance_level |-> level,
         completed_tasks   |-> completed_tasks,
         total_tasks       |-> total_tasks,
         ongoing_tasks     |-> ongoing_tasks,
         research_tasks    |-> research_tasks,
         days_present      |-> days_present,
         days_absent       |-> DaysInMonthAssumed - days_present,
         recommendation    |-> Recommendation(level),
         focus |->
            (IF total_tasks > 0 /\ completed_tasks * 100 >= 70 * total_tasks
             THEN {} ELSE {"completion"})
            \cup (IF days_present * 100 < 80 * DaysInMonthAssumed
                  THEN {"attendance"} ELSE {})
            \cup (IF ongoing_tasks > completed_tasks THEN {"ongoing"} ELSE {})
            \cup (IF 3 * research_tasks > total_tasks THEN {"research"} ELSE {}),
         summary |-> IF level \in {"Excellent", "Good"}
                     THEN "performing well" ELSE "needs guidance"]

generate_ai_insights(d) ==
    LET all_tasks == fetch_tasks(d)
    IN  [email \in DOMAIN all_tasks |-> Insight(d, all_tasks, email)]

\* the score clamped to 100
calculate_performance_score_clamped(performance_rate, attendance_rate, task_completion_rate) ==
    Min(1000,
        RoundHalfEven(4 * performance_rate
                      + (3 * attendance_rate * 100 * 100) \div DaysInMonthAssumed
                      + 300 * task_completion_rate, 100))

\* lines 182-198: performance_rate in hundredths, the result in tenths; the sum
\* is formed in thousandths: 0.4*p, 0.3*(a/30*100) and 0.3*t
calculate_performance_score(performance_rate, attendance_rate, task_completion_rate) ==
    RoundHalfEven(4 * performance_rate
                  + (3 * attendance_rate * 100 * 100) \div DaysInMonthAssumed
                  + 300 * task_completion_rate, 100)

\* rows without a day-offset are dropped from the result
DeadlineStats_dropna(daysOf, emails) ==
    [e \in {x \in emails : \E i \in DOMAIN daysOf[x] : ~isnan(daysOf[x][i])} |->
        LET valid == SelectSeq(daysOf[e], LAMBDA x : ~isnan(x))
            vals == [i \in DOMAIN valid |-> Val(valid[i])]
        IN  [mean  |-> Num(RoundHalfEven(10 * SumSeq(vals), Len(vals))),
             min   |-> Num(MinOf(Range(vals))),
             max   |-> Num(MaxOf(Range(vals))),
             count |-> Len(vals)]]

\* groupby("Email")["Days to Complete"].agg(['mean','min','max','count'])
\* .round(1).to_dict('index'): every email is a group; NaN offsets are skipped
\* by each aggregate, and a group without any offset has NaN mean, min, max
\* and count 0.  mean is in tenths of a day, min and max in days.
DeadlineStats(daysOf, emails) ==
    [e \in emails |->
        LET valid == SelectSeq(daysOf[e], LAMBDA x : ~isnan(x))
            vals == [i \in DOMAIN valid |-> Val(valid[i])]
        IN  IF Len(vals) = 0
            THEN [mean |-> NaN, min |-> NaN, max |-> NaN, count |-> 0]
            ELSE [mean  |-> Num(RoundHalfEven(10 * SumSeq(vals), Len(vals))),
                  min   |-> Num(MinOf(Range(vals))),
                  max   |-> Num(MaxOf(Range(vals))),
                  count |-> Len(vals)]]

DeadlineColumns == {"TaskAssignedDate", "TodaysDate"}

\* the difference taken the other way round
DaysToComplete_reversed(r) ==
    IF r.TodaysDate.kind = "ts" /\ r.TaskAssignedDate.kind = "ts"
    THEN Num(r.TaskAssignedDate.ord - r.TodaysDate.ord)
    ELSE NaN

\* (Today's Date - Task Assigned Date).dt.days of one row of typed cells
DaysToComplete(r) ==
    IF r.TodaysDate.kind = "ts" /\ r.TaskAssignedDate.kind = "ts"
    THEN Num(r.TodaysDate.ord - r.TaskAssignedDate.ord)
    ELSE NaN

\* the frame analyze_deadline_performance leaves behind (lines 202-210)
analyze_deadline_performance_frame(d) ==
    IF ~(DeadlineColumns \subseteq d.columns) THEN d
    ELSE LET c == ConvertColumn(ConvertColumn(d, "TaskAssignedDate"), "TodaysDate")
         IN  [rows    |-> [i \in DOMAIN c.rows |->
                              [c.rows[i] EXCEPT !.DaysToComplete = DaysToComplete(c.rows[i])]],
              dtype   |-> c.dtype,
              columns |-> c.columns \cup {"DaysToComplete"}]

analyze_deadline_performance(d) ==
    IF ~(DeadlineColumns \subseteq d.columns) THEN <<>>
    ELSE LET f == analyze_deadline_performance_frame(d)
             daysOf == [e \in Emails(f) |->
                           LET mine == RowsOf(f, e)
                           IN  [i \in DOMAIN mine |-> mine[i].DaysToComplete]]
         IN  DeadlineStats(daysOf, Emails(f))

----------------------------------------------------------------------------
(* Where the functions raise instead of returning.  A stage that raises     *)
(* ends the script: nothing catches the exception.                          *)

\* line 33: dropna(subset=["Today's Date"]) raises KeyError without the
\* column, as does groupby("Email") without Email
process_attendance_raises(d) ==
    ~({"TodaysDate", "Email"} \subseteq d.columns)

\* lines 39-41: row.get tolerates missing task columns; row["Email"] is read
\* only for a row that has both
fetch_tasks_raises(d) ==
    /\ "Email" \notin d.columns
    /\ \E i \in DOMAIN d.rows : HasTask(d.rows[i])

\* lines 18-20 read three columns of every row and line 47 groups by Email:
\* KeyError when one is missing (on a frame without rows and columns the
\* groupby of line 47 raises)
compute_performance_raises(d) ==
    ~({"TaskStatus", "TaskAssignedDate", "TodaysDate", "Email"} \subseteq d.columns)

\* line 73 reads df["Today's Date"] for every email that has a task
generate_ai_insights_raises(d) ==
    \/ fetch_tasks_raises(d)
    \/ /\ DOMAIN fetch_tasks(d) # {}
       /\ "TodaysDate" \notin d.columns

\* line 202 returns before anything is read; line 213 groups by Email
analyze_deadline_performance_raises(d) ==
    /\ DeadlineColumns \subseteq d.columns
    /\ "Email" \notin d.columns

----------------------------------------------------------------------------
(* app.py *)

\* lines 73-80
ComputeOverallScores(att, perf, tsk) ==
    [email \in DOMAIN att |->
        LET perf_rate == Get(perf, email, 0)
            attend_rate == Get(att, email, 0)
            task_rate == Len(SelectSeq(Get(tsk, email, <<>>), LAMBDA t : t[2] = <<"Completed">>))
        IN  calculate_performance_score(perf_rate, attend_rate, task_rate)]

\* lines 36-44: the one-row table used when the sheet is empty
MockData ==
    <<[Email |-> "example@example.com",
       TodaysDate |-> DMY(TodayDay, 6, 2024),
       TaskAssignedDate |-> DMY(TodayDay - 2, 6, 2024),
       AssignedTaskName |-> <<"Mock", "Task">>,
       TaskStatus |-> <<"Ongoing">>,
       TaskCompletionRate |-> NaN,
       DaysToComplete |-> NaN]>>

----------------------------------------------------------------------------
(* Input tables *)

BaseColumns ==
    {"Email", "TodaysDate", "AssignedTaskName", "TaskStatus", "TaskAssignedDate"}

\* pd.DataFrame(data) of string cells
Frame(rows) ==
    [rows    |-> rows,
     dtype   |-> [TodaysDate |-> "object", TaskAssignedDate |-> "object"],
     columns |-> BaseColumns]

Row(email, today, assigned, name, status) ==
    [Email |-> email, TodaysDate |-> today, TaskAssignedDate |-> assigned,
     AssignedTaskName |-> name, TaskStatus |-> status,
     TaskCompletionRate |-> NaN, DaysToComplete |-> NaN]

A == "a@cf.com"
B == "b@cf.com"

SampleRows ==
    { Row(A, DMY(1, 6, 2024), DMY(1, 6, 2024), <<"T1">>, <<"Completed">>),
      Row(A, DMY(2, 6, 2024), DMY(5, 6, 2024), <<"T2">>, <<"Ongoing">>),
      \* "1/6/2024": the same day as "01/06/2024", another string
      Row(A, Str("/", 1, 6, 2024, FALSE), DMY(1, 6, 2024), <<"T1">>, <<"Finishing">>),
      \* late by one day
      Row(A, DMY(2, 6, 2024), DMY(1, 6, 2024), <<"T1">>, <<"Completed">>),
      \* "2024-06-03": not in the format
      Row(A, Str("-", 2024, 6, 3, TRUE), DMY(1, 6, 2024), <<"T3">>, <<"Completed">>),
      \* no assigned date, no task name
      Row(A, DMY(1, 6, 2024), EmptyStr, NA, <<"Research">>),
      \* "31/06/2024": no such day; a status outside the table
      Row(A, DMY(31, 6, 2024), DMY(5, 6, 2024), <<"T2">>, <<"Not", "Completed">>),
      Row(B, DMY(1, 6, 2024), DMY(5, 6, 2024), <<"T1">>, <<"Research">>),
      Row(B, EmptyStr, DMY(1, 6, 2024), <<"T2">>, NA),
      Row(B, DMY(2, 6, 2024), DMY(2, 6, 2024), <<"T1">>, <<"Completed">>) }

Tables(n) == UNION {[1..k -> SampleRows] : k \in 1..n}

\* the i-th day counted from 01/06/2024
BulkDate(i) ==
    IF i <= 30 THEN DMY(i, 6, 2024)
    ELSE IF i <= 61 THEN DMY(i - 30, 7, 2024)
    ELSE DMY(i - 61, 8, 2024)

\* one person present on nDays days with nTasks tasks, nDone of them Completed
\* and the others Ongoing, every submission on the day of its assignment
Bulk(nDays, nDone, nTasks) ==
    [i \in 1..Max(nDays, nTasks) |->
        Row(A, BulkDate(Min(i, nDays)), BulkDate(Min(i, nDays)),
            IF i <= nTasks THEN <<"Task">> ELSE NA,
            IF i <= nDone THEN <<"Completed">>
            ELSE IF i <= nTasks THEN <<"Ongoing">> ELSE NA)]

BulkTables ==
    {Bulk(d, c, 10) : d \in {20, 21, 23, 24, 26, 27}, c \in {4, 5, 6, 7, 8}}
    \cup {Bulk(BulkSize, BulkSize, BulkSize)}

\* the example of the specification and a row without a submission date; one
\* person with every kind of row; two same-day rows beside an unparsable one
ExampleTables ==
    { <<Row(A, DMY(1, 6, 2024), DMY(1, 6, 2024), <<"T1">>, <<"Completed">>),
        Row(A, DMY(2, 6, 2024), DMY(5, 6, 2024), <<"T2">>, <<"Ongoing">>),
        Row(A, Str("-", 2024, 6, 3, TRUE), DMY(1, 6, 2024), <<"T3">>, <<"Completed">>)>>,
      <<Row(A, DMY(1, 6, 2024), DMY(1, 6, 2024), <<"T1">>, <<"Completed">>),
        Row(B, DMY(1, 6, 2024), DMY(5, 6, 2024), <<"T1">>, <<"Research">>),
        Row(A, DMY(2, 6, 2024), DMY(1, 6, 2024), <<"T1">>, <<"Completed">>),
        Row(A, DMY(31, 6, 2024), DMY(5, 6, 2024), <<"T2">>, <<"Not", "Completed">>)>>,
      <<Row(A, DMY(1, 6, 2024), DMY(1, 6, 2024), <<"T1">>, <<"Ongoing">>),
        Row(A, Str("/", 1, 6, 2024, FALSE), DMY(1, 6, 2024), <<"T1">>, <<"Finishing">>),
        Row(A, EmptyStr, DMY(1, 6, 2024), <<"T1">>, <<"Completed">>)>> }

InputTables == Tables(MaxRows) \cup ExampleTables \cup BulkTables

\* pd.DataFrame() / pd.DataFrame([]): what fetch_sheet_data returns on a
\* failure and for a sheet without records; no rows and no columns
EmptyDataFrame ==
    [rows    |-> <<>>,
     dtype   |-> [TodaysDate |-> "object", TaskAssignedDate |-> "object"],
     columns |-> {}]

\* a cell of a column the sheet does not have; nothing may read it
Absent == [kind |-> "absent"]

\* the frame of a sheet without the column col
WithoutColumn(d, col) ==
    [rows    |-> [i \in DOMAIN d.rows |-> [d.rows[i] EXCEPT ![col] = Absent]],
     dtype   |-> d.dtype,
     columns |-> d.columns \ {col}]

\* frames of sheets that lack one of the two date columns
LackingFrames ==
    {WithoutColumn(Frame(t), col) :
        t \in ExampleTables \cup {<<r>> : r \in SampleRows},
        col \in DeadlineColumns}

InputFrames == {Frame(t) : t \in InputTables} \cup {EmptyDataFrame} \cup LackingFrames

\* sheet contents of the session model: empty, or one row
SessTables == {<<>>} \cup {<<r>> : r \in SampleRows}

----------------------------------------------------------------------------
(* The stage sequence of app.py lines 48-80 over one DataFrame, applied a   *)
(* second time to the DataFrame as the first application left it.           *)

Results ==
    [attendance |-> attendance, tasks |-> tasks, performance |-> performance,
     ai_insights |-> ai_insights, deadline_performance |-> deadline_performance,
     overall_scores |-> overall_scores]

Init ==
    /\ records \in InputFrames
    /\ df = records
    /\ attendance = <<>>
    /\ tasks = <<>>
    /\ performance = <<>>
    /\ ai_insights = <<>>
    /\ deadline_performance = <<>>
    /\ overall_scores = <<>>
    /\ first = <<>>
    /\ pass = 1
    /\ pc = "attendance"
    /\ snapshot = <<>>
    /\ session_state = <<>>
    /\ runs = 0
    /\ ran = {}

\* what the stage sequence leaves alone
SessionVars == <<snapshot, session_state, runs, ran>>

StageAttendance ==
    /\ pc = "attendance"
    /\ IF process_attendance_raises(df)
       THEN /\ pc' = "error"
            /\ UNCHANGED <<attendance, df>>
       ELSE /\ attendance' = process_attendance(df)
            /\ df' = process_attendance_frame(df)
            /\ pc' = "tasks"
    /\ UNCHANGED <<records, tasks, performance, ai_insights, deadline_performance,
                   overall_scores, first, pass, SessionVars>>

StageTasks ==
    /\ pc = "tasks"
    /\ IF fetch_tasks_raises(df)
       THEN /\ pc' = "error"
            /\ UNCHANGED tasks
       ELSE /\ tasks' = fetch_tasks(df)
            /\ pc' = "performance"
    /\ UNCHANGED <<records, df, attendance, performance, ai_insights,
                   deadline_performance, overall_scores, first, pass, SessionVars>>

StagePerformance ==
    /\ pc = "performance"
    /\ IF compute_performance_raises(df)
       THEN /\ pc' = "error"
            /\ UNCHANGED <<performance, df>>
       ELSE /\ performance' = compute_performance(df)
            /\ df' = compute_performance_frame(df)
            /\ pc' = "insights"
    /\ UNCHANGED <<records, attendance, tasks, ai_insights, deadline_performance,
                   overall_scores, first, pass, SessionVars>>

StageInsights ==
    /\ pc = "insights"
    /\ IF generate_ai_insights_raises(df)
       THEN /\ pc' = "error"
            /\ UNCHANGED ai_insights
       ELSE /\ ai_insights' = generate_ai_insights(df)
            /\ pc' = "deadline"
    /\ UNCHANGED <<records, df, attendance, tasks, performance,
                   deadline_performance, overall_scores, first, pass, SessionVars>>

StageDeadline ==
    /\ pc = "deadline"
    /\ IF analyze_deadline_performance_raises(df)
       THEN /\ pc' = "error"
            /\ UNCHANGED <<deadline_performance, df>>
       ELSE /\ deadline_performance' = analyze_deadline_performance(df)
            /\ df' = analyze_deadline_performance_frame(df)
            /\ pc' = "scores"
    /\ UNCHANGED <<records, attendance, tasks, performance, ai_insights,
                   overall_scores, first, pass, SessionVars>>

StageScores ==
    /\ pc = "scores"
    /\ overall_scores' = ComputeOverallScores(attendance, performance, tasks)
    /\ pc' = "done"
    /\ UNCHANGED <<records, df, attendance, tasks, performance, ai_insights,
                   deadline_performance, first, pass, SessionVars>>

\* the same stages once more, on the DataFrame object as it is now
RunAgain ==
    /\ pc = "done"
    /\ pass = 1
    /\ first' = Results
    /\ pass' = 2
    /\ pc' = "attendance"
    /\ attendance' = <<>>
    /\ tasks' = <<>>
    /\ performance' = <<>>
    /\ ai_insights' = <<>>
    /\ deadline_performance' = <<>>
    /\ overall_scores' = <<>>
    /\ UNCHANGED <<records, df, SessionVars>>

Next ==
    \/ StageAttendance
    \/ StageTasks
    \/ StagePerformance
    \/ StageInsights
    \/ StageDeadline
    \/ StageScores
    \/ RunAgain

Spec == Init /\ [][Next]_vars

----------------------------------------------------------------------------
(* One browser session of app.py: every interaction runs the script from    *)
(* top to bottom; st.session_state outlives the runs; load_data returns a   *)
(* fresh copy of the cached sheet content until the cache entry expires.    *)

Pages == {"Performance Dashboard", "Attendance Tracker", "Deadline Analysis"}

\* the stages of lines 48-80 over the DataFrame d0
Pipeline(d0) ==
    LET d1 == process_attendance_frame(d0)
        d2 == compute_performance_frame(d1)
        att == process_attendance(d0)
        tsk == fetch_tasks(d1)
        perf == compute_performance(d1)
    IN  [attendance |-> att,
         tasks |-> tsk,
         performance |-> perf,
         ai_insights |-> generate_ai_insights(d2),
         deadline_performance |-> analyze_deadline_performance(d2),
         overall_scores |-> ComputeOverallScores(att, perf, tsk)]

\* lines 31-45
LoadData == IF snapshot = <<>> THEN Frame(MockData) ELSE Frame(snapshot)

InitSession ==
    /\ snapshot \in SessTables
    /\ session_state = <<>>
    /\ runs = 0
    /\ records = Frame(<<>>)
    /\ df = Frame(<<>>)
    /\ attendance = <<>>
    /\ tasks = <<>>
    /\ performance = <<>>
    /\ ai_insights = <<>>
    /\ deadline_performance = <<>>
    /\ overall_scores = <<>>
    /\ first = <<>>
    /\ pass = 0
    /\ pc = "session"
    /\ ran = {}

\* one run of the script, lines 20-80
ScriptRun ==
    /\ runs < MaxRuns
    /\ LET d0 == LoadData
           fresh == Pipeline(d0)
           ins == IF session_state = <<>>            \* 'ai_insights' not in st.session_state
                  THEN fresh.ai_insights
                  ELSE session_state[1]
       IN  /\ records' = d0
           /\ attendance' = fresh.attendance
           /\ tasks' = fresh.tasks
           /\ performance' = fresh.performance
           /\ session_state' = <<ins>>
           /\ ai_insights' = ins
           /\ deadline_performance' = fresh.deadline_performance
           /\ df' = analyze_deadline_performance_frame(
                        compute_performance_frame(process_attendance_frame(d0)))
           \* the scores are computed on the dashboard page only
           /\ \E page \in Pages :
                 overall_scores' =
                    IF page = "Performance Dashboard" THEN fresh.overall_scores ELSE <<>>
    /\ runs' = runs + 1
    /\ UNCHANGED <<snapshot, first, pass, pc, ran>>

\* the cache entry of load_data (ttl=300) expires and the sheet has changed
CacheExpire ==
    /\ runs >= 1
    /\ runs < MaxRuns
    /\ snapshot' \in SessTables \ {snapshot}
    /\ UNCHANGED <<records, df, attendance, tasks, performance, ai_insights,
                   deadline_performance, overall_scores, first, pass, pc,
                   session_state, runs, ran>>

NextSession ==
    \/ ScriptRun
    \/ CacheExpire

SessionSpec == InitSession /\ [][NextSession]_vars

----------------------------------------------------------------------------
(* The five aggregators applied to one DataFrame object, each once, in any  *)
(* order: each call works on the object as the calls before it left it.     *)

Aggregators ==
    {"process_attendance", "fetch_tasks", "compute_performance",
     "generate_ai_insights", "analyze_deadline_performance"}

InitOrder ==
    /\ records \in {Frame(t) : t \in InputTables}
    /\ df = records
    /\ attendance = <<>>
    /\ tasks = <<>>
    /\ performance = <<>>
    /\ ai_insights = <<>>
    /\ deadline_performance = <<>>
    /\ overall_scores = <<>>
    /\ first = <<>>
    /\ pass = 0
    /\ pc = "order"
    /\ snapshot = <<>>
    /\ session_state = <<>>
    /\ runs = 0
    /\ ran = {}

OrderFixed == <<records, overall_scores, first, pass, pc, snapshot, session_state, runs>>

CallProcessAttendance ==
    /\ "process_attendance" \notin ran
    /\ attendance' = process_attendance(df)
    /\ df' = process_attendance_frame(df)
    /\ ran' = ran \cup {"process_attendance"}
    /\ UNCHANGED <<tasks, performance, ai_insights, deadline_performance, OrderFixed>>

CallFetchTasks ==
    /\ "fetch_tasks" \notin ran
    /\ tasks' = fetch_tasks(df)
    /\ ran' = ran \cup {"fetch_tasks"}
    /\ UNCHANGED <<df, attendance, performance, ai_insights, deadline_performance, OrderFixed>>

CallComputePerformance ==
    /\ "compute_performance" \notin ran
    /\ performance' = compute_performance(df)
    /\ df' = compute_performance_frame(df)
    /\ ran' = ran \cup {"compute_performance"}
    /\ UNCHANGED <<attendance, tasks, ai_insights, deadline_performance, OrderFixed>>

CallGenerateInsights ==
    /\ "generate_ai_insights" \notin ran
    /\ ai_insights' = generate_ai_insights(df)
    /\ ran' = ran \cup {"generate_ai_insights"}
    /\ UNCHANGED <<df, attendance, tasks, performance, deadline_performance, OrderFixed>>

CallAnalyzeDeadline ==
    /\ "analyze_deadline_performance" \notin ran
    /\ deadline_performance' = analyze_deadline_performance(df)
    /\ df' = analyze_deadline_performance_frame(df)
    /\ ran' = ran \cup {"analyze_deadline_performance"}
    /\ UNCHANGED <<attendance, tasks, performance, ai_insights, OrderFixed>>

NextOrder ==
    \/ CallProcessAttendance
    \/ CallFetchTasks
    \/ CallComputePerformance
    \/ CallGenerateInsights
    \/ CallAnalyzeDeadline

OrderSpec == InitOrder /\ [][NextOrder]_vars

----------------------------------------------------------------------------
(* What the claims speak of, read off the raw records                       *)

RawRows == records.rows
RowIdx(P) == {i \in DOMAIN RawRows : RawRows[i].Email = P}
People == {RawRows[i].Email : i \in DOMAIN RawRows}

Parses(c) == to_datetime(c).kind = "ts"
DayOf(c) == to_datetime(c).ord

\* the distinct parseable submission days of P
SubmissionDays(P) ==
    {DayOf(RawRows[i].TodaysDate) : i \in {j \in RowIdx(P) : Parses(RawRows[j].TodaysDate)}}

BothParse(r) == Parses(r.TodaysDate) /\ Parses(r.TaskAssignedDate)
Offset(r) == DayOf(r.TodaysDate) - DayOf(r.TaskAssignedDate)
ValidIdx(P) == {i \in RowIdx(P) : BothParse(RawRows[i])}

TableValue(status) ==
    CASE status = <<"Completed">> -> 100
      [] status = <<"Finishing">> -> 90
      [] status = <<"Ongoing">> -> 60
      [] status = <<"Research">> -> 30
      [] OTHER -> 0

Contribution(r) ==
    IF BothParse(r) /\ Offset(r) <= 0 THEN TableValue(r.TaskStatus) ELSE 0

RECURSIVE SumOver(_, _)
SumOver(f, S) ==
    IF S = {} THEN 0
    ELSE LET x == CHOOSE y \in S : TRUE IN f[x] + SumOver(f, S \ {x})

TaskIdx(P) ==
    {i \in RowIdx(P) : RawRows[i].AssignedTaskName # NA /\ RawRows[i].TaskStatus # NA}

AfterStage(stage) ==
    CASE stage = "attendance" -> pc \in {"tasks", "performance", "insights", "deadline", "scores", "done"}
      [] stage = "tasks" -> pc \in {"performance", "insights", "deadline", "scores", "done"}
      [] stage = "performance" -> pc \in {"insights", "deadline", "scores", "done"}
      [] stage = "insights" -> pc \in {"deadline", "scores", "done"}
      [] stage = "deadline" -> pc \in {"scores", "done"}
      [] stage = "scores" -> pc = "done"

----------------------------------------------------------------------------
\* C1: after process_attendance, the attendance count of every person (read
\* with the default 0 of attendance.get) is the number of distinct parseable
\* submission dates among the person's rows: same-day rows count once and rows
\* with an absent or unparsable date add nothing.
C1_AttendanceCountsDistinctDays ==
    AfterStage("attendance") =>
        /\ DOMAIN attendance \subseteq People
        /\ \A P \in People :
              Get(attendance, P, 0) = Cardinality(SubmissionDays(P))

C1_Witness ==
    /\ pc = "done"
    /\ \E P \in DOMAIN attendance :
          /\ attendance[P] = 1
          /\ Cardinality({RawRows[i].TodaysDate : i \in RowIdx(P)}) = 3
          /\ \E i \in RowIdx(P) : ~Parses(RawRows[i].TodaysDate)

\* C2: after compute_performance, the completion rate of every person is the
\* mean over all the person's rows of the row contribution (the table value if
\* the status is in the table, both dates parse and submission <= assigned,
\* else 0), rounded to 2 decimals, and lies in [0,100].  Rates are in
\* hundredths.
C2_CompletionRateIsMean ==
    AfterStage("performance") =>
        /\ DOMAIN performance = People
        /\ \A P \in People :
              LET n == Cardinality(RowIdx(P))
                  total == SumOver([i \in RowIdx(P) |-> Contribution(RawRows[i])], RowIdx(P))
              IN  /\ 2 * (performance[P] * n - 100 * total) <= n
                  /\ 2 * (100 * total - performance[P] * n) <= n
                  /\ performance[P] \in 0..10000

C2_Witness ==
    /\ pc = "done"
    /\ \E P \in DOMAIN performance :
          /\ performance[P] = 5000
          /\ \E i \in RowIdx(P) :
                /\ BothParse(RawRows[i])
                /\ Offset(RawRows[i]) > 0
                /\ RawRows[i].TaskStatus = <<"Completed">>
          /\ \E i \in RowIdx(P) : Contribution(RawRows[i]) = 100

InsightCompleted(P) ==
    Cardinality({i \in TaskIdx(P) :
        Contains(RawRows[i].TaskStatus, "Finishing") \/ Contains(RawRows[i].TaskStatus, "Completed")})

\* C3: every insight carries exactly one of the four tiers, decided in order
\* with inclusive bounds from completion_rate = completed/total*100 and
\* attendance_rate = days_present/30*100 (the counts are those the insight
\* reports; completed and total are those of the person's task entries).
C3_TierByOrderedThresholds ==
    AfterStage("insights") =>
        \A P \in DOMAIN ai_insights :
            LET ins == ai_insights[P]
                c == ins.completed_tasks
                t == ins.total_tasks
                d == ins.days_present
                E == 100 * c >= 80 * t /\ 100 * d >= 90 * 30
                G == 100 * c >= 70 * t /\ 100 * d >= 80 * 30
                V == 100 * c >= 50 * t /\ 100 * d >= 70 * 30
                lv == ins.performance_level
            IN  /\ t = Cardinality(TaskIdx(P))
                /\ t > 0
                /\ c = InsightCompleted(P)
                /\ lv \in {"Excellent", "Good", "Average", "Below Average"}
                /\ (lv = "Excellent") <=> E
                /\ (lv = "Good") <=> (~E /\ G)
                /\ (lv = "Average") <=> (~E /\ ~G /\ V)
                /\ (lv = "Below Average") <=> (~E /\ ~G /\ ~V)

\* completion 80% and 27 days: both bounds met with equality
C3_Witness ==
    /\ pc = "done"
    /\ \E P \in DOMAIN ai_insights :
          /\ ai_insights[P].performance_level = "Excellent"
          /\ ai_insights[P].completed_tasks = 8
          /\ ai_insights[P].total_tasks = 10
          /\ ai_insights[P].days_present = 27

CompletedCount(P) ==
    Cardinality({i \in TaskIdx(P) : RawRows[i].TaskStatus = <<"Completed">>})

\* C4: the score of every scored person is 0.4*CompletionRate
\* + 0.3*(days/30*100) + 0.3*(number of task entries with status exactly
\* "Completed"), rounded to 1 decimal, with no clamping.  Scores are in tenths,
\* the exact sum in thousandths.
C4_OverallScoreFormula ==
    AfterStage("scores") =>
        /\ DOMAIN overall_scores = DOMAIN attendance
        /\ \A P \in DOMAIN overall_scores :
              LET exact == 4 * Get(performance, P, 0) + 1000 * attendance[P]
                           + 300 * CompletedCount(P)
              IN  /\ 100 * overall_scores[P] - exact <= 50
                  /\ exact - 100 * overall_scores[P] <= 50

\* a score above 100
C4_Witness ==
    /\ pc = "done"
    /\ \E P \in DOMAIN overall_scores :
          /\ overall_scores[P] > 1000
          /\ CompletedCount(P) >= 1
          /\ attendance[P] > 30

\* C5: for every person with a row whose two dates parse, count is the number
\* of such rows and min, max and mean (rounded to 1 decimal, in tenths) are
\* those of their day-offsets submission - assigned; other rows change none of
\* the four.
C5_DeadlineStatsOverValidRows ==
    AfterStage("deadline") =>
        \A P \in People :
            ValidIdx(P) # {} =>
                /\ P \in DOMAIN deadline_performance
                /\ LET st == deadline_performance[P]
                       n == Cardinality(ValidIdx(P))
                       offs == [i \in ValidIdx(P) |-> Offset(RawRows[i])]
                       total == SumOver(offs, ValidIdx(P))
                   IN  /\ st.count = n
                       /\ \E i \in ValidIdx(P) : st.min = <<offs[i]>>
                       /\ \A i \in ValidIdx(P) : Val(st.min) <= offs[i]
                       /\ \E i \in ValidIdx(P) : st.max = <<offs[i]>>
                       /\ \A i \in ValidIdx(P) : Val(st.max) >= offs[i]
                       /\ 2 * (Val(st.mean) * n - 10 * total) <= n
                       /\ 2 * (10 * total - Val(st.mean) * n) <= n

\* offsets 0 and -3 beside a row without a submission date
C5_Witness ==
    /\ pc = "done"
    /\ \E P \in DOMAIN deadline_performance :
          /\ deadline_performance[P] =
                [mean |-> <<-15>>, min |-> <<-3>>, max |-> <<0>>, count |-> 2]
          /\ Cardinality(RowIdx(P)) = 3

\* C6 (as claimed): a person without any row whose two dates parse is no key
\* of the deadline statistics.
C6_NoValidRowsAbsent ==
    AfterStage("deadline") =>
        \A P \in People :
            ValidIdx(P) = {} => P \notin DOMAIN deadline_performance

WithDate == {P \in People : SubmissionDays(P) # {}}
WithTask == {P \in People : TaskIdx(P) # {}}

\* C7 (as claimed): after a run all six mappings have the emails of the
\* records as their keys.
C7_SameDomainEverywhere ==
    pc = "done" =>
        /\ DOMAIN attendance = People
        /\ DOMAIN tasks = People
        /\ DOMAIN performance = People
        /\ DOMAIN deadline_performance = People
        /\ DOMAIN overall_scores = People
        /\ DOMAIN ai_insights = People

\* C7 (amended): after a run the completion rates and the deadline statistics
\* are keyed by all emails of the records, the attendance counts and the
\* scores by the emails with a parseable submission date, the task lists and
\* the insights by the emails with a row that has both task name and status.
C7_DomainsPerMapping ==
    pc = "done" =>
        /\ DOMAIN performance = People
        /\ DOMAIN deadline_performance = People
        /\ DOMAIN attendance = WithDate
        /\ DOMAIN overall_scores = WithDate
        /\ DOMAIN tasks = WithTask
        /\ DOMAIN ai_insights = WithTask

\* a person in the rates and the deadline statistics only, beside a person in
\* every mapping
C7_Witness ==
    /\ pc = "done"
    /\ \E P \in People : P \notin WithDate /\ P \notin WithTask
    /\ WithDate \cap WithTask # {}

\* C8 (as claimed): after every run of a session the insights presented are
\* those derived from the records of that run, as are attendance, tasks,
\* completion rates and deadline statistics.
C8_InsightsFromCurrentSnapshot ==
    runs >= 1 =>
        LET fresh == Pipeline(records)
        IN  /\ attendance = fresh.attendance
            /\ tasks = fresh.tasks
            /\ performance = fresh.performance
            /\ deadline_performance = fresh.deadline_performance
            /\ ai_insights = fresh.ai_insights

\* C9: the stage sequence applied again to the DataFrame as the first
\* application left it (date columns typed, derived columns added) returns the
\* mappings of the first application.
C9_SecondRunIdentical ==
    (pass = 2 /\ pc = "done") => Results = first

C9_Witness ==
    /\ pass = 2
    /\ pc = "done"
    /\ df.dtype.TodaysDate = "datetime64"
    /\ df.dtype.TaskAssignedDate = "datetime64"
    /\ records.dtype.TodaysDate = "object"
    /\ \E P \in DOMAIN first.deadline_performance :
          first.deadline_performance[P].count >= 1
    /\ \E P \in DOMAIN first.performance : first.performance[P] > 0
    /\ \E i \in DOMAIN RawRows : ~Parses(RawRows[i].TodaysDate)

PermuteRows(rows, f) == [i \in DOMAIN rows |-> rows[f[i]]]

\* every permutation of a short table; reversal, rotation and a swap of a long one
PermsToCheck(n) ==
    IF n <= 4 THEN Permutations(1..n)
    ELSE { [i \in 1..n |-> n + 1 - i],
           [i \in 1..n |-> (i % n) + 1],
           [i \in 1..n |-> IF i = 1 THEN 2 ELSE IF i = 2 THEN 1 ELSE i] }

\* the (name, status) pairs of P's rows that have both, in row order
RECURSIVE TaskListUpTo(_, _, _)
TaskListUpTo(rows, P, n) ==
    IF n = 0 THEN <<>>
    ELSE LET r == rows[n]
             before == TaskListUpTo(rows, P, n - 1)
         IN  IF r.Email = P /\ r.AssignedTaskName # NA /\ r.TaskStatus # NA
             THEN Append(before, <<r.AssignedTaskName, r.TaskStatus>>)
             ELSE before

\* C10: permuting the rows changes neither the attendance counts, the
\* completion rates, the deadline statistics, the scores nor any person's
\* tier; the task list of every person is the sequence of (name, status) pairs
\* of the person's rows that have both, in the order of the permuted rows,
\* duplicates kept.
C10_OrderIndependence ==
    pc = "done" =>
        \A f \in PermsToCheck(Len(RawRows)) :
            LET rows == PermuteRows(RawRows, f)
                q == Pipeline(Frame(rows))
            IN  /\ q.attendance = attendance
                /\ q.performance = performance
                /\ q.deadline_performance = deadline_performance
                /\ q.overall_scores = overall_scores
                /\ DOMAIN q.ai_insights = DOMAIN ai_insights
                /\ \A P \in DOMAIN ai_insights :
                      q.ai_insights[P].performance_level = ai_insights[P].performance_level
                /\ DOMAIN q.tasks = WithTask
                /\ \A P \in WithTask : q.tasks[P] = TaskListUpTo(rows, P, Len(rows))
                /\ \A P \in WithTask : tasks[P] = TaskListUpTo(RawRows, P, Len(RawRows))

\* a permutation that changes a task list, with the same task reported twice
C10_Witness ==
    /\ pc = "done"
    /\ \E f \in PermsToCheck(Len(RawRows)) :
          fetch_tasks(Frame(PermuteRows(RawRows, f))) # tasks
    /\ \E P \in DOMAIN tasks :
          \E i, j \in DOMAIN tasks[P] : i # j /\ tasks[P][i][1] = tasks[P][j][1]

\* C11 (as claimed): on a record set without rows every stage returns an
\* empty mapping without raising, no score and no insight is produced, and the
\* stage sequence reaches its end.
C11_EmptyInputEmptyMappings ==
    records.rows = <<>> =>
        /\ pc # "error"
        /\ attendance = <<>>
        /\ tasks = <<>>
        /\ performance = <<>>
        /\ ai_insights = <<>>
        /\ deadline_performance = <<>>
        /\ overall_scores = <<>>

\* C13 (as claimed): when the sheet lacks the assignment-date or the
\* submission-date column, analyze_deadline_performance returns an empty
\* mapping and leaves the table as it is, and the stage sequence does not end
\* in an error.
C13_MissingDateColumnDegrades ==
    (records.rows # <<>> /\ ~(DeadlineColumns \subseteq records.columns)) =>
        /\ ~analyze_deadline_performance_raises(df)
        /\ analyze_deadline_performance(df) = <<>>
        /\ analyze_deadline_performance_frame(df) = df
        /\ pc # "error"

\* C12 (as claimed): in whatever order the aggregators are applied to the
\* table, each returns the mapping it returns when applied alone to the
\* untouched table.
C12_ResultIndependentOfOrder ==
    /\ "process_attendance" \in ran => attendance = process_attendance(records)
    /\ "fetch_tasks" \in ran => tasks = fetch_tasks(records)
    /\ "compute_performance" \in ran => performance = compute_performance(records)
    /\ "generate_ai_insights" \in ran => ai_insights = generate_ai_insights(records)
    /\ "analyze_deadline_performance" \in ran =>
          deadline_performance = analyze_deadline_performance(records)

\* C14 (as claimed): the days_present of every insight is the attendance
\* count of the person, the number of distinct parseable submission dates.
C14_DaysPresentIsAttendance ==
    AfterStage("insights") =>
        \A P \in DOMAIN ai_insights :
            /\ ai_insights[P].days_present = Get(attendance, P, 0)
            /\ ai_insights[P].days_present = Cardinality(SubmissionDays(P))

====
